---------------------------- MODULE Spec2Model ----------------------------
(***************************************************************************)
(* Fan service of the nevermore controller: src/gatt/fan.cpp together with *)
(* the write consumer and the per-connection notification table of         *)
(* src/gatt/handler_helpers.hpp.                                           *)
(*                                                                         *)
(* The BLE host stack is an external collaborator.  Only the part of it    *)
(* that the code touches is modelled: the set of live HCI connections and, *)
(* for each of them, the list att_server.notification_requests.            *)
(***************************************************************************)
EXTENDS Integers, Sequences, FiniteSets, TLC

(***************************************************************************)
(* Bounds of the model.                                                    *)
(***************************************************************************)
MaxHandle == 2
MAX_NR_HCI_CONNECTIONS == 2
MaxBuf == 3
MaxOffset == 1
MaxTime == 12
MaxRps == 1

(***************************************************************************)
(* Program constants.                                                      *)
(***************************************************************************)
GATT_CLIENT_CFG_NOTIFY_FLAG == 1
FAN_POLICY_UPDATE_RATE_HZ == 10
UINT16_MAX == 65535
HCI_CON_HANDLE_INVALID == 65535
NULLPTR == 0
NOT_KNOWN == 255
ATT_OK == 0
ATT_ERROR_INVALID_OFFSET == 7
ATT_ERROR_INVALID_ATTRIBUTE_VALUE_LENGTH == 13
NOT_HANDLED == -1
NO_TIME == -1

ConnHandles == 0 .. MaxHandle
Slots == 1 .. MAX_NR_HCI_CONNECTIONS
\* Percentage8 raw codes used as arguments: 0%, 50%, 100% and not-known.
PctValues == {0, 100, 200, NOT_KNOWN}
\* VOC index readings injected into the sensor view.
VocInputs == {50, 250}

VARIABLES
    g_fan_power,            \* BLE::Percentage8, raw code
    g_fan_power_override,   \* BLE::Percentage8, raw code; NOT_KNOWN = automatic
    pwm_level,              \* 16-bit level programmed on PIN_FAN_PWM
    g_fan_policy,           \* FanPolicyEnvironmental parameters
    last_active_at,         \* state of the policy instance (policy periods)
    now,                    \* monotonic time, in policy periods
    rps,                    \* g_tachometer.revolutions_per_second()
    g_prev,                 \* static g_prev of the tachometer-notify timer
    callbacks,              \* g_notify_aggregate.callbacks[i].context
    connected,              \* handles hci_connection_for_handle() resolves
    closing,                \* handle whose disconnection event is being handled
    notification_requests,  \* per connection: att_server.notification_requests
    wantNotify,             \* history: handles whose last CCCD write set bit 0
    overfull,               \* history: more handles than slots wanted notify
    stale,                  \* history: subscribers not yet sent the current power/override
    last,                   \* history: the handler that ran last, its inputs, result
    notifyCalls,            \* history: notify() calls made by that handler
    addressed,              \* history: handles its last notify() call addressed
    sent,                   \* history: notification sent by that handler, if any
    readbuf                 \* history: bytes attr_read copied out

fanVars == <<g_fan_power, g_fan_power_override, pwm_level>>
policyVars == <<g_fan_policy, last_active_at, now>>
tachVars == <<rps, g_prev>>
tableVars == <<callbacks, notification_requests>>
linkVars == <<connected, closing>>
ghostVars == <<wantNotify, overfull, stale>>
histVars == <<last, notifyCalls, addressed, sent, readbuf>>
vars == <<fanVars, policyVars, tachVars, tableVars, linkVars, ghostVars, histVars>>

(***************************************************************************)
(* Small helpers.                                                          *)
(***************************************************************************)
Min(a, b) == IF a < b THEN a ELSE b
Max(a, b) == IF a < b THEN b ELSE a
Contains(seq, x) == \E i \in 1 .. Len(seq) : seq[i] = x
Remove(seq, x) == SelectSeq(seq, LAMBDA y : y # x)

(***************************************************************************)
(* The program state the handlers read and write, as one record, so that   *)
(* a handler that calls another is the composition of the two.             *)
(***************************************************************************)
Cur == [power |-> g_fan_power, override |-> g_fan_power_override, pwm |-> pwm_level,
        policy |-> g_fan_policy, callbacks |-> callbacks,
        requests |-> notification_requests, calls |-> 0, addressed |-> << >>]

Commit(s) ==
    /\ g_fan_power' = s.power
    /\ g_fan_power_override' = s.override
    /\ pwm_level' = s.pwm
    /\ g_fan_policy' = s.policy
    /\ callbacks' = s.callbacks
    /\ notification_requests' = s.requests
    /\ notifyCalls' = s.calls
    /\ addressed' = s.addressed

(***************************************************************************)
(* BLE stack: att_server_request_to_send_notification(&cb, con_handle).    *)
(* Unknown connection: an error code and nothing else.  Otherwise the      *)
(* registration is appended to the connection's list unless it is already  *)
(* in it (btstack_linked_list_add_tail).                                   *)
(***************************************************************************)
att_server_request_to_send_notification(requests, slot, con_handle) ==
    IF con_handle \notin connected THEN requests
    ELSE IF Contains(requests[con_handle], slot) THEN requests
    ELSE [requests EXCEPT ![con_handle] = Append(@, slot)]

(***************************************************************************)
(* NotifyState (handler_helpers.hpp).                                      *)
(***************************************************************************)
registered(s, conn) == \E i \in Slots : conn = s.callbacks[i]

FreeSlots(s) == {i \in Slots : s.callbacks[i] = HCI_CON_HANDLE_INVALID}

\* register_ taking the first slot when it finds none unassigned.
register_evicting(s, conn) ==
    IF registered(s, conn) THEN s
    ELSE IF FreeSlots(s) = {} THEN [s EXCEPT !.callbacks[1] = conn]
    ELSE LET i == CHOOSE k \in FreeSlots(s) : \A j \in FreeSlots(s) : k <= j
         IN  [s EXCEPT !.callbacks[i] = conn]

register_(s, conn) ==
    IF registered(s, conn) THEN s
    ELSE IF FreeSlots(s) = {} THEN s
    ELSE LET i == CHOOSE k \in FreeSlots(s) : \A j \in FreeSlots(s) : k <= j
         IN  [s EXCEPT !.callbacks[i] = conn]

MatchingSlots(s, conn) == {i \in Slots : s.callbacks[i] = conn}

unregister(s, conn) ==
    IF conn \notin connected THEN s
    ELSE IF MatchingSlots(s, conn) = {} THEN s
    ELSE LET i == CHOOSE k \in MatchingSlots(s, conn) : \A j \in MatchingSlots(s, conn) : k <= j
         IN  [s EXCEPT !.requests[conn] = Remove(@, i),
                       !.callbacks[i] = NULLPTR]

RECURSIVE notify_from(_, _)
notify_from(s, i) ==
    IF i > MAX_NR_HCI_CONNECTIONS THEN s
    ELSE IF s.callbacks[i] # HCI_CON_HANDLE_INVALID
         THEN notify_from(
                [s EXCEPT !.requests = att_server_request_to_send_notification(
                                            @, i, s.callbacks[i]),
                          !.addressed = Append(@, s.callbacks[i])],
                i + 1)
         ELSE notify_from(s, i + 1)

notify(s) == notify_from([s EXCEPT !.calls = @ + 1, !.addressed = << >>], 1)

client_configuration(s, conn) == IF registered(s, conn) THEN 1 ELSE 0

(***************************************************************************)
(* Fan controller (fan.cpp).                                               *)
(***************************************************************************)
\* Percentage8::value_or(0), in half percent.
value_or_0(p) == IF p = NOT_KNOWN THEN 0 ELSE p

\* The duty rounded to the nearest level instead of truncated.
pwm_duty_rounded(power) ==
    ((2 * UINT16_MAX * value_or_0(power) + 200) \div 400) % (UINT16_MAX + 1)

\* uint16_t(numeric_limits<uint16_t>::max() * (power.value_or(0) / 100))
pwm_duty(power) == ((UINT16_MAX * value_or_0(power)) \div 200) % (UINT16_MAX + 1)

\* fan_power_set that stores the power and notifies but leaves the PWM alone.
fan_power_set_unprogrammed(s, power) ==
    IF s.power = power THEN s
    ELSE notify([s EXCEPT !.power = power])

\* fan_power_set without its early return on an unchanged value.
fan_power_set_always(s, power) ==
    LET s1 == notify([s EXCEPT !.power = power])
    IN  [s1 EXCEPT !.pwm = pwm_duty(power)]

fan_power_set(s, power) ==
    IF s.power = power THEN s
    ELSE LET s1 == notify([s EXCEPT !.power = power])
         IN  [s1 EXCEPT !.pwm = pwm_duty(power)]

fan_power(s) == value_or_0(s.power)

\* fan_power_override switching the fan off when the override is released.
fan_power_override_release_stops(s, power) ==
    IF s.override = power THEN s
    ELSE LET s1 == notify([s EXCEPT !.override = power])
         IN  IF power # NOT_KNOWN THEN fan_power_set(s1, power) ELSE fan_power_set(s1, 0)

fan_power_override(s, power) ==
    IF s.override = power THEN s
    ELSE LET s1 == notify([s EXCEPT !.override = power])
         IN  IF power # NOT_KNOWN THEN fan_power_set(s1, power) ELSE s1

\* pwm_init(slice, &cfg, start) of the SDK: the slice is configured and its
\* counter and compare registers are written with their reset value.
pwm_init(s) == [s EXCEPT !.pwm = 0]

\* struct Aggregate, default-initialised from the globals.
Aggregate == <<g_fan_power, g_fan_power_override, (rps * 60) % (UINT16_MAX + 1)>>

(***************************************************************************)
(* WriteConsumer (handler_helpers.hpp).  A consumer is the pair of the     *)
(* offset and the buffer; buffer_size is the buffer's length.  An          *)
(* operation that may throw AttrWriteException returns the error in        *)
(* `thrown` (ATT_OK when nothing was thrown).                              *)
(***************************************************************************)
WriteConsumer(offset, buffer) == [offset |-> offset, buffer |-> buffer]

remaining(c) == IF Len(c.buffer) < c.offset THEN 0 ELSE Len(c.buffer) - c.offset

has_available(c, n) == IF Len(c.buffer) < c.offset THEN FALSE ELSE n <= Len(c.buffer) - c.offset

\* memcpy(&value, buffer + offset, n) of a little-endian scalar of n bytes.
RECURSIVE little_endian(_, _, _)
little_endian(buffer, from, n) ==
    IF n = 0 THEN 0 ELSE buffer[from] + 256 * little_endian(buffer, from + 1, n - 1)

\* operator A(), sizeof(A) = n
consume_as(c, n) ==
    IF ~has_available(c, n)
    THEN [thrown |-> ATT_ERROR_INVALID_ATTRIBUTE_VALUE_LENGTH, value |-> 0, consume |-> c]
    ELSE [thrown |-> ATT_OK, value |-> little_endian(c.buffer, c.offset + 1, n),
          consume |-> [c EXCEPT !.offset = @ + n]]

\* exactly<A>(), sizeof(A) = n
exactly(c, n) ==
    IF remaining(c) # n
    THEN [thrown |-> ATT_ERROR_INVALID_ATTRIBUTE_VALUE_LENGTH, value |-> 0, consume |-> c]
    ELSE consume_as(c, n)

\* NotifyState::client_configuration(conn, consume)
client_configuration_write(s, conn, consume) ==
    LET r == consume_as(consume, 2) IN
    IF r.thrown # ATT_OK THEN [st |-> s, res |-> r.thrown, v |-> 0]
    ELSE IF remaining(r.consume) # 0
         THEN [st |-> s, res |-> ATT_ERROR_INVALID_ATTRIBUTE_VALUE_LENGTH, v |-> r.value]
    ELSE IF (r.value \div GATT_CLIENT_CFG_NOTIFY_FLAG) % 2 = 1
         THEN [st |-> register_(s, conn), res |-> ATT_OK, v |-> r.value]
         ELSE [st |-> unregister(s, conn), res |-> ATT_OK, v |-> r.value]

(***************************************************************************)
(* GATT adapter (fan.cpp): attribute handles of the fan service, and one   *)
(* handle that belongs to another service.                                 *)
(***************************************************************************)
DescriptionHandles ==
    {"FAN_POWER_USER_DESCRIPTION", "FAN_POWER_OVERRIDE_USER_DESCRIPTION",
     "TACHOMETER_USER_DESCRIPTION", "FAN_AGGREGATE_USER_DESCRIPTION",
     "FAN_POLICY_COOLDOWN_USER_DESCRIPTION",
     "FAN_POLICY_VOC_PASSIVE_MAX_USER_DESCRIPTION",
     "FAN_POLICY_VOC_IMPROVE_MIN_USER_DESCRIPTION"}
ValueHandles ==
    {"FAN_POWER_VALUE", "FAN_POWER_OVERRIDE_VALUE", "TACHOMETER_VALUE",
     "FAN_AGGREGATE_VALUE", "FAN_POLICY_COOLDOWN_VALUE",
     "FAN_POLICY_VOC_PASSIVE_MAX_VALUE", "FAN_POLICY_VOC_IMPROVE_MIN_VALUE"}
ReadHandles == DescriptionHandles \cup ValueHandles \cup {"FAN_AGGREGATE_CLIENT_CONFIGURATION"}
WriteHandles ==
    {"FAN_POLICY_COOLDOWN_VALUE", "FAN_POLICY_VOC_PASSIVE_MAX_VALUE",
     "FAN_POLICY_VOC_IMPROVE_MIN_VALUE", "FAN_AGGREGATE_CLIENT_CONFIGURATION",
     "FAN_POWER_OVERRIDE_VALUE"}
\* Handles of other services of the same GATT database.
ForeignHandles == {"OTHER_SERVICE_VALUE"}
AttHandles == ReadHandles \cup ForeignHandles

\* "Fan %"
DESC_FAN_POWER ==
    <<70, 97, 110, 32, 37>>

\* "Fan % - Override"
DESC_FAN_POWER_OVERRIDE ==
    <<70, 97, 110, 32, 37, 32, 45, 32, 79, 118, 101, 114, 114, 105, 100,
      101>>

\* "Fan RPM"
DESC_TACHOMETER ==
    <<70, 97, 110, 32, 82, 80, 77>>

\* "Aggregated Service Data"
DESC_FAN_AGGREGATE ==
    <<65, 103, 103, 114, 101, 103, 97, 116, 101, 100, 32, 83, 101, 114,
      118, 105, 99, 101, 32, 68, 97, 116, 97>>

\* "How long to continue filtering after conditions are acceptable"
DESC_FAN_POLICY_COOLDOWN ==
    <<72, 111, 119, 32, 108, 111, 110, 103, 32, 116, 111, 32, 99, 111,
      110, 116, 105, 110, 117, 101, 32, 102, 105, 108, 116, 101, 114, 105,
      110, 103, 32, 97, 102, 116, 101, 114, 32, 99, 111, 110, 100, 105,
      116, 105, 111, 110, 115, 32, 97, 114, 101, 32, 97, 99, 99, 101, 112,
      116, 97, 98, 108, 101>>

\* "Filter if any VOC sensor reaches this threshold"
DESC_FAN_POLICY_VOC_PASSIVE_MAX ==
    <<70, 105, 108, 116, 101, 114, 32, 105, 102, 32, 97, 110, 121, 32, 86,
      79, 67, 32, 115, 101, 110, 115, 111, 114, 32, 114, 101, 97, 99, 104,
      101, 115, 32, 116, 104, 105, 115, 32, 116, 104, 114, 101, 115, 104,
      111, 108, 100>>

\* "Filter if intake exceeds exhaust by this threshold"
DESC_FAN_POLICY_VOC_IMPROVE_MIN ==
    <<70, 105, 108, 116, 101, 114, 32, 105, 102, 32, 105, 110, 116, 97,
      107, 101, 32, 101, 120, 99, 101, 101, 100, 115, 32, 101, 120, 104,
      97, 117, 115, 116, 32, 98, 121, 32, 116, 104, 105, 115, 32, 116,
      104, 114, 101, 115, 104, 111, 108, 100>>

uint16_bytes(v) == <<v % 256, (v \div 256) % 256>>

\* att_read_callback_handle_blob(blob, offset, buffer, buffer_size), buffer # NULL
att_read_callback_handle_blob(blob, offset, buffer_size) ==
    IF Len(blob) >= offset
    THEN SubSeq(blob, offset + 1, offset + Min(Len(blob) - offset, buffer_size))
    ELSE << >>

\* The value attr_read encodes for a handle of the fan service.
read_blob(s, conn, att_handle) ==
    CASE att_handle = "FAN_POWER_USER_DESCRIPTION" -> DESC_FAN_POWER
      [] att_handle = "FAN_POWER_OVERRIDE_USER_DESCRIPTION" -> DESC_FAN_POWER_OVERRIDE
      [] att_handle = "TACHOMETER_USER_DESCRIPTION" -> DESC_TACHOMETER
      [] att_handle = "FAN_AGGREGATE_USER_DESCRIPTION" -> DESC_FAN_AGGREGATE
      [] att_handle = "FAN_POLICY_COOLDOWN_USER_DESCRIPTION" -> DESC_FAN_POLICY_COOLDOWN
      [] att_handle = "FAN_POLICY_VOC_PASSIVE_MAX_USER_DESCRIPTION" ->
            DESC_FAN_POLICY_VOC_PASSIVE_MAX
      [] att_handle = "FAN_POLICY_VOC_IMPROVE_MIN_USER_DESCRIPTION" ->
            DESC_FAN_POLICY_VOC_IMPROVE_MIN
      [] att_handle = "FAN_POWER_VALUE" -> <<s.power>>
      [] att_handle = "FAN_POWER_OVERRIDE_VALUE" -> <<s.override>>
      [] att_handle = "TACHOMETER_VALUE" -> uint16_bytes(Aggregate[3])
      [] att_handle = "FAN_AGGREGATE_VALUE" ->
            <<s.power, s.override>> \o uint16_bytes(Aggregate[3])
      [] att_handle = "FAN_POLICY_COOLDOWN_VALUE" -> uint16_bytes(s.policy.cooldown)
      [] att_handle = "FAN_POLICY_VOC_PASSIVE_MAX_VALUE" ->
            uint16_bytes(s.policy.voc_passive_max)
      [] att_handle = "FAN_POLICY_VOC_IMPROVE_MIN_VALUE" ->
            uint16_bytes(s.policy.voc_improve_min)
      [] att_handle = "FAN_AGGREGATE_CLIENT_CONFIGURATION" ->
            uint16_bytes(client_configuration(s, conn))

\* optional<uint16_t> attr_read(conn, att_handle, offset, buffer, buffer_size)
attr_read(s, conn, att_handle, offset, buffer_size) ==
    IF att_handle \in ReadHandles
    THEN LET out == att_read_callback_handle_blob(read_blob(s, conn, att_handle),
                                                  offset, buffer_size)
         IN  [res |-> Len(out), bytes |-> out]
    ELSE [res |-> NOT_HANDLED, bytes |-> << >>]

\* WRITE_VALUE(attr, dst): dst = consume.exactly<decltype(dst)>(); return 0;
write_value(s, field, consume) ==
    LET r == exactly(consume, 2) IN
    IF r.thrown # ATT_OK THEN [st |-> s, res |-> r.thrown, v |-> 0]
    ELSE [st |-> [s EXCEPT !.policy[field] = r.value], res |-> ATT_OK, v |-> r.value]

\* The override write taking the byte as a percentage and storing it in the
\* half percent of Percentage8.
write_override_percent(s, consume) ==
    LET r == consume_as(consume, 1) IN
    IF r.thrown # ATT_OK THEN [st |-> s, res |-> r.thrown, v |-> 0]
    ELSE [st |-> fan_power_override(s, IF r.value = NOT_KNOWN THEN NOT_KNOWN
                                       ELSE (2 * r.value) % 256),
          res |-> ATT_OK, v |-> r.value]

\* case HANDLE_ATTR(FAN_POWER_OVERRIDE, VALUE)
write_override(s, consume) ==
    LET r == consume_as(consume, 1) IN
    IF r.thrown # ATT_OK THEN [st |-> s, res |-> r.thrown, v |-> 0]
    ELSE [st |-> fan_power_override(s, r.value), res |-> ATT_OK, v |-> r.value]

\* optional<int> attr_write(conn, att_handle, offset, buffer, buffer_size)
attr_write(s, conn, att_handle, offset, buffer) ==
    IF Len(buffer) < offset THEN [st |-> s, res |-> ATT_ERROR_INVALID_OFFSET, v |-> 0]
    ELSE LET consume == WriteConsumer(offset, buffer) IN
         CASE att_handle = "FAN_POLICY_COOLDOWN_VALUE" -> write_value(s, "cooldown", consume)
           [] att_handle = "FAN_POLICY_VOC_PASSIVE_MAX_VALUE" ->
                 write_value(s, "voc_passive_max", consume)
           [] att_handle = "FAN_POLICY_VOC_IMPROVE_MIN_VALUE" ->
                 write_value(s, "voc_improve_min", consume)
           [] att_handle = "FAN_AGGREGATE_CLIENT_CONFIGURATION" ->
                 client_configuration_write(s, conn, consume)
           [] att_handle = "FAN_POWER_OVERRIDE_VALUE" -> write_override(s, consume)
           [] OTHER -> [st |-> s, res |-> NOT_HANDLED, v |-> 0]

(***************************************************************************)
(* Fan policy (utility/fan_policy.hpp): the instance evaluated by the      *)
(* fan-policy timer.  Times are counted in policy periods.                 *)
(***************************************************************************)
FanPolicyActive(p, intake, exhaust) ==
    \/ Max(intake, exhaust) >= p.voc_passive_max
    \/ intake - exhaust >= p.voc_improve_min

FanPolicyInstance(p, active_at, intake, exhaust, t) ==
    IF FanPolicyActive(p, intake, exhaust)
    THEN [out |-> 1, last_active_at |-> t]
    ELSE IF active_at # NO_TIME /\ t - active_at < p.cooldown * FAN_POLICY_UPDATE_RATE_HZ
         THEN [out |-> 1, last_active_at |-> active_at]
         ELSE [out |-> 0, last_active_at |-> active_at]

DefaultFanPolicy == [cooldown |-> 1, voc_passive_max |-> 200, voc_improve_min |-> 100]

(***************************************************************************)
(* History kept for the properties: the handler that ran last.             *)
(***************************************************************************)
Op(op, conn, h, off, size, v, res) ==
    [op |-> op, conn |-> conn, h |-> h, off |-> off, size |-> size, v |-> v,
     res |-> res, rep |-> 1]

\* A direct call of a controller function; rep counts consecutive equal calls.
Call(op, v) ==
    [Op(op, HCI_CON_HANDLE_INVALID, "-", 0, 0, v, ATT_OK)
        EXCEPT !.rep = IF last.op = op /\ last.v = v THEN Min(last.rep + 1, 2) ELSE 1]

Idle == closing = HCI_CON_HANDLE_INVALID

\* History: the subscribers that have not been sent the power and override
\* of the state s a handler leaves.  A change of either makes every
\* subscriber stale; a notification sent to it, or its next CCCD write,
\* makes it fresh again.
StaleAfter(s) ==
    IF s.power # g_fan_power \/ s.override # g_fan_power_override
    THEN wantNotify
    ELSE stale

\* History: 1 if the sensor view of this tick satisfies the activation
\* predicate of the configured policy, else 0.
SensorsActive(intake, exhaust) ==
    IF FanPolicyActive(g_fan_policy, intake, exhaust) THEN 1 ELSE 0

Init ==
    /\ g_fan_power = 0
    /\ g_fan_power_override = NOT_KNOWN
    /\ pwm_level = 0
    /\ g_fan_policy = DefaultFanPolicy
    /\ last_active_at = NO_TIME
    /\ now = 0
    /\ rps = 0
    /\ g_prev = 0
    /\ callbacks = [i \in Slots |-> HCI_CON_HANDLE_INVALID]
    /\ connected = {}
    /\ closing = HCI_CON_HANDLE_INVALID
    /\ notification_requests = [c \in ConnHandles |-> << >>]
    /\ wantNotify = {}
    /\ overfull = FALSE
    /\ stale = {}
    /\ last = Op("init", HCI_CON_HANDLE_INVALID, "-", 0, 0, 0, ATT_OK)
    /\ notifyCalls = 0
    /\ addressed = << >>
    /\ sent = << >>
    /\ readbuf = << >>

\* The state once a first client, handle 1, has connected.
InitLinked ==
    /\ g_fan_power = 0
    /\ g_fan_power_override = NOT_KNOWN
    /\ pwm_level = 0
    /\ g_fan_policy = DefaultFanPolicy
    /\ last_active_at = NO_TIME
    /\ now = 0
    /\ rps = 0
    /\ g_prev = 0
    /\ callbacks = [i \in Slots |-> HCI_CON_HANDLE_INVALID]
    /\ connected = {1}
    /\ closing = HCI_CON_HANDLE_INVALID
    /\ notification_requests = [c \in ConnHandles |-> << >>]
    /\ wantNotify = {}
    /\ overfull = FALSE
    /\ stale = {}
    /\ last = Op("connect", 1, "-", 0, 0, 0, ATT_OK)
    /\ notifyCalls = 0
    /\ addressed = << >>
    /\ sent = << >>
    /\ readbuf = << >>

\* Levels the PWM may hold when init() is entered.
BootLevels == {0, 32767, UINT16_MAX}

\* The state before init(): the globals are statically initialised, the PWM
\* holds any level.
InitBoot ==
    /\ g_fan_power = 0
    /\ g_fan_power_override = NOT_KNOWN
    /\ pwm_level \in BootLevels
    /\ g_fan_policy = DefaultFanPolicy
    /\ last_active_at = NO_TIME
    /\ now = 0
    /\ rps = 0
    /\ g_prev = 0
    /\ callbacks = [i \in Slots |-> HCI_CON_HANDLE_INVALID]
    /\ connected = {}
    /\ closing = HCI_CON_HANDLE_INVALID
    /\ notification_requests = [c \in ConnHandles |-> << >>]
    /\ wantNotify = {}
    /\ overfull = FALSE
    /\ stale = {}
    /\ last = Op("boot", HCI_CON_HANDLE_INVALID, "-", 0, 0, 0, ATT_OK)
    /\ notifyCalls = 0
    /\ addressed = << >>
    /\ sent = << >>
    /\ readbuf = << >>

Booted == last.op # "boot"

(***************************************************************************)
(* Handlers.                                                               *)
(***************************************************************************)
\* init(): the PWM slice is configured, then fan_power_set(g_fan_power).
\* The history keeps the level the PWM held on entry.
FanInit ==
    /\ ~Booted
    /\ Commit(fan_power_set(pwm_init(Cur), g_fan_power))
    /\ last' = Op("init", HCI_CON_HANDLE_INVALID, "-", 0, 0, pwm_level, ATT_OK)
    /\ sent' = << >> /\ readbuf' = << >>
    /\ UNCHANGED <<last_active_at, now, tachVars, linkVars, ghostVars>>

\* fan_power_override(power), called by another part of the firmware.
SetOverride(power) ==
    /\ Idle
    /\ Commit(fan_power_override(Cur, power))
    /\ stale' = StaleAfter(fan_power_override(Cur, power))
    /\ last' = Call("fan_power_override", power)
    /\ sent' = << >> /\ readbuf' = << >>
    /\ UNCHANGED <<last_active_at, now, tachVars, linkVars, wantNotify, overfull>>

\* fan_power_set(power) called on its own.
SetPower(power) ==
    /\ Idle
    /\ Commit(fan_power_set(Cur, power))
    /\ stale' = StaleAfter(fan_power_set(Cur, power))
    /\ last' = Call("fan_power_set", power)
    /\ sent' = << >> /\ readbuf' = << >>
    /\ UNCHANGED <<last_active_at, now, tachVars, linkVars, wantNotify, overfull>>

\* The fan-policy timer without its return while an override is set.
PolicyTickUnguarded(intake, exhaust) ==
    /\ Idle
    /\ now < MaxTime
    /\ now' = now + 1
    /\ LET r == FanPolicyInstance(g_fan_policy, last_active_at, intake, exhaust, now + 1)
       IN  /\ Commit(fan_power_set(Cur, r.out * 200))
           /\ stale' = StaleAfter(fan_power_set(Cur, r.out * 200))
           /\ last_active_at' = r.last_active_at
    /\ last' = Op("fan-policy", HCI_CON_HANDLE_INVALID, "-", 0, 0,
                  SensorsActive(intake, exhaust), ATT_OK)
    /\ sent' = << >> /\ readbuf' = << >>
    /\ UNCHANGED <<tachVars, linkVars, wantNotify, overfull>>

\* The fan-policy timer with an instance that is not static: every tick
\* evaluates a fresh instance, which has seen no activation.
PolicyTickFreshInstance(intake, exhaust) ==
    /\ Idle
    /\ now < MaxTime
    /\ now' = now + 1
    /\ IF g_fan_power_override # NOT_KNOWN
       THEN /\ Commit(Cur)
            /\ stale' = stale
            /\ last_active_at' = last_active_at
       ELSE LET r == FanPolicyInstance(g_fan_policy, NO_TIME, intake, exhaust, now + 1)
            IN  /\ Commit(fan_power_set(Cur, r.out * 200))
                /\ stale' = StaleAfter(fan_power_set(Cur, r.out * 200))
                /\ last_active_at' = IF r.last_active_at = NO_TIME THEN last_active_at
                                     ELSE r.last_active_at
    /\ last' = Op("fan-policy", HCI_CON_HANDLE_INVALID, "-", 0, 0,
                  SensorsActive(intake, exhaust), ATT_OK)
    /\ sent' = << >> /\ readbuf' = << >>
    /\ UNCHANGED <<tachVars, linkVars, wantNotify, overfull>>

\* The fan-policy timer evaluating the policy before it looks at the override.
PolicyTickEvaluatesFirst(intake, exhaust) ==
    /\ Idle
    /\ now < MaxTime
    /\ now' = now + 1
    /\ LET r == FanPolicyInstance(g_fan_policy, last_active_at, intake, exhaust, now + 1)
       IN  /\ last_active_at' = r.last_active_at
           /\ IF g_fan_power_override # NOT_KNOWN
              THEN Commit(Cur) /\ stale' = stale
              ELSE /\ Commit(fan_power_set(Cur, r.out * 200))
                   /\ stale' = StaleAfter(fan_power_set(Cur, r.out * 200))
    /\ last' = Op("fan-policy", HCI_CON_HANDLE_INVALID, "-", 0, 0,
                  SensorsActive(intake, exhaust), ATT_OK)
    /\ sent' = << >> /\ readbuf' = << >>
    /\ UNCHANGED <<tachVars, linkVars, wantNotify, overfull>>

\* The fan-policy timer.
PolicyTick(intake, exhaust) ==
    /\ Idle
    /\ now < MaxTime
    /\ now' = now + 1
    /\ IF g_fan_power_override # NOT_KNOWN
       THEN /\ Commit(Cur)
            /\ stale' = stale
            /\ last_active_at' = last_active_at
       ELSE LET r == FanPolicyInstance(g_fan_policy, last_active_at, intake, exhaust, now + 1)
            IN  /\ Commit(fan_power_set(Cur, r.out * 200))
                /\ stale' = StaleAfter(fan_power_set(Cur, r.out * 200))
                /\ last_active_at' = r.last_active_at
    /\ last' = Op("fan-policy", HCI_CON_HANDLE_INVALID, "-", 0, 0,
                  SensorsActive(intake, exhaust), ATT_OK)
    /\ sent' = << >> /\ readbuf' = << >>
    /\ UNCHANGED <<tachVars, linkVars, wantNotify, overfull>>

\* The tachometer sampler completes a window with a new reading.
TachometerSample(r) ==
    /\ Idle
    /\ r # rps
    /\ rps' = r
    /\ Commit(Cur)
    /\ last' = Op("tachometer-sample", HCI_CON_HANDLE_INVALID, "-", 0, 0, r, ATT_OK)
    /\ sent' = << >> /\ readbuf' = << >>
    /\ UNCHANGED <<g_prev, last_active_at, now, linkVars, ghostVars>>

\* The gatt-fan-tachometer-notify timer.
TachometerTick ==
    /\ Idle
    /\ IF g_prev = rps
       THEN Commit(Cur) /\ g_prev' = g_prev
       ELSE Commit(notify(Cur)) /\ g_prev' = rps
    /\ last' = Op("tachometer-notify", HCI_CON_HANDLE_INVALID, "-", 0, 0, 0, ATT_OK)
    /\ sent' = << >> /\ readbuf' = << >>
    /\ UNCHANGED <<rps, last_active_at, now, linkVars, ghostVars>>

\* A client's write request reaches attr_write.
AttrWrite(conn, att_handle, offset, buffer) ==
    /\ Idle
    /\ conn \in connected
    /\ LET r == attr_write(Cur, conn, att_handle, offset, buffer) IN
       /\ Commit(r.st)
       /\ last' = Op("attr_write", conn, att_handle, offset, Len(buffer), r.v, r.res)
       /\ wantNotify' =
            IF att_handle = "FAN_AGGREGATE_CLIENT_CONFIGURATION" /\ r.res = ATT_OK
            THEN IF r.v % 2 = 1 THEN wantNotify \cup {conn} ELSE wantNotify \ {conn}
            ELSE wantNotify
       /\ stale' =
            IF att_handle = "FAN_AGGREGATE_CLIENT_CONFIGURATION" /\ r.res = ATT_OK
            THEN StaleAfter(r.st) \ {conn}
            ELSE StaleAfter(r.st)
    /\ overfull' = (overfull \/ Cardinality(wantNotify') > MAX_NR_HCI_CONNECTIONS)
    /\ sent' = << >> /\ readbuf' = << >>
    /\ UNCHANGED <<last_active_at, now, tachVars, linkVars>>

\* A client's read request reaches attr_read.
AttrRead(conn, att_handle, offset, buffer_size) ==
    /\ Idle
    /\ conn \in connected
    /\ LET r == attr_read(Cur, conn, att_handle, offset, buffer_size) IN
       /\ last' = Op("attr_read", conn, att_handle, offset, buffer_size, 0, r.res)
       /\ readbuf' = r.bytes
    /\ Commit(Cur)
    /\ sent' = << >>
    /\ UNCHANGED <<last_active_at, now, tachVars, linkVars, ghostVars>>

\* BLE stack: a connection is established.
Connect(conn) ==
    /\ Idle
    /\ conn \notin connected
    /\ connected' = connected \cup {conn}
    /\ Commit(Cur)
    /\ last' = Op("connect", conn, "-", 0, 0, 0, ATT_OK)
    /\ sent' = << >> /\ readbuf' = << >>
    /\ UNCHANGED <<closing, last_active_at, now, tachVars, ghostVars>>

\* disconnected(conn), called for HCI_EVENT_DISCONNECTION_COMPLETE while the
\* stack still holds the connection.
Disconnected(conn) ==
    /\ Idle
    /\ conn \in connected
    /\ closing' = conn
    /\ Commit(unregister(Cur, conn))
    /\ wantNotify' = wantNotify \ {conn}
    /\ stale' = stale \ {conn}
    /\ last' = Op("disconnected", conn, "-", 0, 0, 0, ATT_OK)
    /\ sent' = << >> /\ readbuf' = << >>
    /\ UNCHANGED <<connected, overfull, last_active_at, now, tachVars>>

\* BLE stack: after the event handlers ran, the connection and its lists go.
HciShutdownConnection ==
    /\ ~Idle
    /\ connected' = connected \ {closing}
    /\ closing' = HCI_CON_HANDLE_INVALID
    /\ Commit([Cur EXCEPT !.requests[closing] = << >>])
    /\ last' = Op("hci_shutdown_connection", closing, "-", 0, 0, 0, ATT_OK)
    /\ sent' = << >> /\ readbuf' = << >>
    /\ UNCHANGED <<last_active_at, now, tachVars, ghostVars>>

\* g_notify_aggregate's Handler: att_server_notify(conn, FAN_AGGREGATE, Aggregate{})
Handler(conn) == [conn |-> conn, payload |-> Aggregate]

\* BLE stack: the connection can send; the head of its request list is
\* taken off and its callback runs with the registration's context.
Deliver(conn) ==
    /\ Idle
    /\ conn \in connected
    /\ notification_requests[conn] # << >>
    /\ LET slot == Head(notification_requests[conn]) IN
       /\ Commit([Cur EXCEPT !.requests[conn] = Tail(@)])
       /\ sent' = <<Handler(callbacks[slot])>>
       /\ stale' = stale \ {callbacks[slot]}
    /\ last' = Op("deliver", conn, "-", 0, 0, 0, ATT_OK)
    /\ readbuf' = << >>
    /\ UNCHANGED <<last_active_at, now, tachVars, linkVars, wantNotify, overfull>>

(***************************************************************************)
(* Specifications.                                                         *)
(***************************************************************************)
Buffers(bytes) == UNION {[1 .. n -> bytes] : n \in 0 .. MaxBuf}

\* The fan controller with one client: overrides, the policy timer, the
\* tachometer timer, and the client subscribing and being notified.
NextFan ==
    \/ \E power \in PctValues : SetOverride(power)
    \/ \E conn \in ConnHandles, b \in PctValues :
          AttrWrite(conn, "FAN_POWER_OVERRIDE_VALUE", 0, <<b>>)
    \/ \E conn \in ConnHandles :
          AttrWrite(conn, "FAN_AGGREGATE_CLIENT_CONFIGURATION", 0, <<1, 0>>)
    \/ \E conn \in ConnHandles : Deliver(conn)
    \/ \E intake \in VocInputs, exhaust \in VocInputs : PolicyTick(intake, exhaust)
    \/ \E r \in 0 .. MaxRps : TachometerSample(r)
    \/ TachometerTick

SpecFan == InitLinked /\ [][NextFan]_vars

\* The controller functions called directly, in any order.
NextApi ==
    \/ \E power \in PctValues : SetPower(power)
    \/ \E power \in PctValues : SetOverride(power)
    \/ \E conn \in ConnHandles :
          AttrWrite(conn, "FAN_AGGREGATE_CLIENT_CONFIGURATION", 0, <<1, 0>>)
    \/ \E conn \in ConnHandles : Deliver(conn)

SpecApi == InitLinked /\ [][NextApi]_vars

\* fan_power_set called with every Percentage8 code, 0 .. 200 and not-known.
DutyCodes == (0 .. 200) \cup {NOT_KNOWN}

NextDuty == \E power \in DutyCodes : SetPower(power)

SpecDuty == InitLinked /\ [][NextDuty]_vars

\* From power-up: init(), then the controller functions, the policy timer
\* and one client, handle 1, connecting and writing the override.
NextBoot ==
    \/ FanInit
    \/ Booted /\ \E power \in PctValues : SetPower(power)
    \/ Booted /\ \E power \in PctValues : SetOverride(power)
    \/ Booted /\ \E intake \in VocInputs, exhaust \in VocInputs : PolicyTick(intake, exhaust)
    \/ Booted /\ Connect(1)
    \/ Booted /\ \E conn \in ConnHandles, b \in PctValues :
                    AttrWrite(conn, "FAN_POWER_OVERRIDE_VALUE", 0, <<b>>)

SpecBoot == InitBoot /\ [][NextBoot]_vars

\* Clients connect, subscribe, write the override, read the aggregate and
\* are notified; nobody unsubscribes or disconnects.
NextSnap ==
    \/ \E conn \in ConnHandles : Connect(conn)
    \/ \E conn \in ConnHandles :
          AttrWrite(conn, "FAN_AGGREGATE_CLIENT_CONFIGURATION", 0, <<1, 0>>)
    \/ \E conn \in ConnHandles, b \in {100, NOT_KNOWN} :
          AttrWrite(conn, "FAN_POWER_OVERRIDE_VALUE", 0, <<b>>)
    \/ \E conn \in ConnHandles : AttrRead(conn, "FAN_AGGREGATE_VALUE", 0, 4)
    \/ \E conn \in ConnHandles : Deliver(conn)

SpecSnap == Init /\ [][NextSnap]_vars

\* The notification table and the stack's pending notifications.
NextNotify ==
    \/ \E conn \in ConnHandles : Connect(conn)
    \/ \E conn \in ConnHandles : Disconnected(conn)
    \/ HciShutdownConnection
    \/ \E conn \in ConnHandles, b \in {0, 1} :
          AttrWrite(conn, "FAN_AGGREGATE_CLIENT_CONFIGURATION", 0, <<b, 0>>)
    \/ \E conn \in ConnHandles :
          AttrRead(conn, "FAN_AGGREGATE_CLIENT_CONFIGURATION", 0, 2)
    \/ \E power \in {0, 200} : SetOverride(power)
    \/ \E conn \in ConnHandles : Deliver(conn)

SpecNotify == Init /\ [][NextNotify]_vars

\* The same with a stack that drains: a connection that has a request
\* pending again and again, whatever happens on the other connections in
\* between, eventually gets to send, and a disconnection being handled
\* completes.
SpecNotifyFair ==
    /\ SpecNotify
    /\ \A conn \in ConnHandles : SF_vars(Deliver(conn))
    /\ WF_vars(HciShutdownConnection)

\* The notification table alone: connections appear, subscribe and
\* unsubscribe, and the override changes.
NextTable ==
    \/ \E conn \in ConnHandles : Connect(conn)
    \/ \E conn \in ConnHandles, b \in {0, 1} :
          AttrWrite(conn, "FAN_AGGREGATE_CLIENT_CONFIGURATION", 0, <<b, 0>>)
    \/ \E power \in {0, 200} : SetOverride(power)

SpecTable == Init /\ [][NextTable]_vars

\* The GATT adapter: one connected client reads and writes any attribute.
AttrBytes == {1}

NextAttr ==
    \/ \E conn \in ConnHandles, h \in AttHandles, offset \in 0 .. MaxOffset,
          buffer \in Buffers(AttrBytes) : AttrWrite(conn, h, offset, buffer)
    \/ \E conn \in ConnHandles, h \in AttHandles, offset \in 0 .. MaxOffset,
          n \in 0 .. MaxBuf : AttrRead(conn, h, offset, n)

SpecAttr == InitLinked /\ [][NextAttr]_vars

\* The attributes of declared size 2: the three policy parameters and the
\* CCCD, written at offset 0 with buffers of every length by the first
\* client and by a second one, handle 0.
SizedHandles ==
    {"FAN_POLICY_COOLDOWN_VALUE", "FAN_POLICY_VOC_PASSIVE_MAX_VALUE",
     "FAN_POLICY_VOC_IMPROVE_MIN_VALUE", "FAN_AGGREGATE_CLIENT_CONFIGURATION"}

NextCfg ==
    \/ Connect(0)
    \/ \E conn \in ConnHandles, h \in SizedHandles \cap ValueHandles,
          buffer \in Buffers(AttrBytes) : AttrWrite(conn, h, 0, buffer)
    \/ \E conn \in ConnHandles, buffer \in Buffers({0, 1}) :
          AttrWrite(conn, "FAN_AGGREGATE_CLIENT_CONFIGURATION", 0, buffer)
    \/ \E conn \in ConnHandles :
          AttrRead(conn, "FAN_AGGREGATE_CLIENT_CONFIGURATION", 0, 2)

SpecCfg == InitLinked /\ [][NextCfg]_vars

\* Everything together.
Next == NextFan \/ NextNotify \/ NextAttr

Spec == Init /\ [][Next]_vars

(***************************************************************************)
(* Properties.                                                             *)
(***************************************************************************)
NoDuplicates(seq) == \A i, j \in 1 .. Len(seq) : seq[i] = seq[j] => i = j
SeqRange(seq) == {seq[i] : i \in 1 .. Len(seq)}
CccdWrite(op) == op.op = "attr_write" /\ op.h = "FAN_AGGREGATE_CLIENT_CONFIGURATION"
                    /\ op.res = ATT_OK
ProgramVars == <<fanVars, g_fan_policy, tableVars>>

\* C1: while an override is set power equals the override, and a policy
\* tick taken while an override is set changes neither power, override nor
\* the PWM level, calls notify() not once and leaves the pending
\* notification requests alone.
C1_OverrideHolds ==
    /\ [](g_fan_power_override # NOT_KNOWN => g_fan_power = g_fan_power_override)
    /\ [][(last'.op = "fan-policy" /\ g_fan_power_override # NOT_KNOWN)
            => (UNCHANGED fanVars /\ UNCHANGED notification_requests
                /\ notifyCalls' = 0)]_vars

\* A policy tick has just run under a 50% override, whose value the policy
\* never outputs, with a client subscribed, and power still is the override.
C1_Witness ==
    /\ last.op = "fan-policy"
    /\ wantNotify = {1}
    /\ g_fan_power_override = 100
    /\ g_fan_power = 100
    /\ pwm_level = pwm_duty(100)

\* C2: whenever fewer than MAX_NR_HCI_CONNECTIONS handles are subscribed, a
\* CCCD write with the notify bit set by a connection that is not subscribed
\* makes that connection subscribed: the CCCD then reads 1 for it.
C2_SlotReusable ==
    [][(CccdWrite(last') /\ last'.v % 2 = 1 /\ last'.conn \notin wantNotify
          /\ Cardinality(wantNotify) < MAX_NR_HCI_CONNECTIONS)
        => client_configuration([callbacks |-> callbacks'], last'.conn) = 1]_vars

\* C3: as long as no more handles than slots were subscribed at once, a read
\* of the CCCD by connection c returns 1 exactly if c's most recent CCCD
\* write set the notify bit and c has not disconnected since, else 0.
C3_CccdReadsSubscription ==
    (~overfull /\ last.op = "attr_read" /\ last.res = 2
        /\ last.h = "FAN_AGGREGATE_CLIENT_CONFIGURATION")
        => readbuf = uint16_bytes(IF last.conn \in wantNotify THEN 1 ELSE 0)

\* C4: a notify() call addresses one request to each subscribed handle and
\* none to any other handle.
C4_NotifyAddressesSubscribers ==
    (notifyCalls >= 1 /\ ~overfull)
        => (NoDuplicates(addressed) /\ SeqRange(addressed) = wantNotify)

\* C5: when a subscribed connection disconnects with a notification request
\* pending, its pending list holds no request of this notifier right after
\* disconnected(c).
C5_DisconnectCancelsPending ==
    [][(last'.op = "disconnected" /\ last'.conn \in wantNotify
          /\ notification_requests[last'.conn] # << >>)
        => notification_requests'[last'.conn] = << >>]_vars

\* C6: for every subscribed connection the notify() calls made before the
\* stack drains leave exactly one request pending, hence one notification,
\* and the notification sent carries the Aggregate of the state at sending.
C6_Coalescing ==
    /\ \A c \in wantNotify : Len(notification_requests[c]) <= 1
    /\ (notifyCalls >= 1 /\ ~overfull)
          => \A c \in wantNotify : Len(notification_requests[c]) = 1
    /\ sent # << >> => sent[1].payload = Aggregate

\* C7 as stated: of two equal consecutive calls of fan_power_set, or of
\* fan_power_override, with a value that differs from the current one, the
\* two calls together make exactly one notify() call.
C7_OneSignal ==
    [][(last.op \in {"fan_power_set", "fan_power_override"} /\ last.rep = 1
          /\ notifyCalls >= 1 /\ last'.op = last.op /\ last'.v = last.v)
        => notifyCalls + notifyCalls' = 1]_vars

\* C7 amended: fan_power_set(d) calls notify() once if d differs from power
\* and not at all otherwise; fan_power_override(d) does not call it if d is
\* the current override, calls it once if d is not-known or equals power,
\* and twice otherwise; the second of two equal consecutive calls calls
\* notify() not once and changes nothing.
C7_Idempotent ==
    [][/\ last'.op = "fan_power_set"
            => notifyCalls' = (IF last'.v = g_fan_power THEN 0 ELSE 1)
       /\ last'.op = "fan_power_override"
            => notifyCalls' = (IF last'.v = g_fan_power_override THEN 0
                               ELSE IF last'.v = NOT_KNOWN \/ last'.v = g_fan_power
                                    THEN 1 ELSE 2)
       /\ (last'.op \in {"fan_power_set", "fan_power_override"} /\ last'.rep = 2)
            => (notifyCalls' = 0 /\ UNCHANGED ProgramVars)]_vars

\* fan_power_override(100%) has just been called a second time in a row,
\* with a subscriber's request from the first call still pending.
C7_Witness ==
    /\ last.op = "fan_power_override"
    /\ last.rep = 2
    /\ last.v = 200
    /\ g_fan_power_override = 200
    /\ g_fan_power = 200
    /\ notifyCalls = 0
    /\ notification_requests[1] # << >>

\* C8: a write to Fan Power Override whose length is not 1 fails with
\* INVALID_ATTRIBUTE_VALUE_LENGTH and changes neither the fan state nor the
\* pending notifications.
C8_OverrideWrongLength ==
    [][(last'.op = "attr_write" /\ last'.h = "FAN_POWER_OVERRIDE_VALUE"
          /\ last'.off = 0 /\ last'.size # 1)
        => (last'.res = ATT_ERROR_INVALID_ATTRIBUTE_VALUE_LENGTH
            /\ UNCHANGED ProgramVars)]_vars

\* C9: a write at a non-zero offset to a writable value of the fan service
\* fails with INVALID_OFFSET and changes no state.
C9_NonZeroOffset ==
    [][(last'.op = "attr_write" /\ last'.h \in WriteHandles \cap ValueHandles
          /\ last'.off # 0)
        => (last'.res = ATT_ERROR_INVALID_OFFSET /\ UNCHANGED ProgramVars)]_vars

\* C10: for a handle of another service attr_read and attr_write answer
\* "not handled", whatever the offset and the buffer size, and change no
\* state.
C10_ForeignHandle ==
    [][(last'.op \in {"attr_read", "attr_write"} /\ last'.h \in ForeignHandles)
        => (last'.res = NOT_HANDLED /\ UNCHANGED ProgramVars)]_vars

\* C11: when every slot holds the handle of a subscribed connection, a
\* 2-byte CCCD write with the notify bit set by a further connection c
\* returns 0 and leaves the table, the pending requests and every other
\* connection's CCCD value as they were; the CCCD reads 0 for c, and a
\* notify() call addresses no handle for which the CCCD reads 0.
C11_TableFull ==
    /\ [][(last'.op = "attr_write" /\ last'.h = "FAN_AGGREGATE_CLIENT_CONFIGURATION"
              /\ last'.off = 0 /\ last'.size = 2 /\ last'.v % 2 = 1
              /\ last'.conn \notin wantNotify
              /\ \A i \in Slots : callbacks[i] \in wantNotify)
            => (/\ last'.res = ATT_OK
                /\ UNCHANGED tableVars
                /\ client_configuration([callbacks |-> callbacks'], last'.conn) = 0
                /\ \A c \in ConnHandles :
                      client_configuration([callbacks |-> callbacks'], c)
                        = client_configuration(Cur, c))]_vars
    /\ [](notifyCalls >= 1
            => \A c \in ConnHandles :
                  client_configuration(Cur, c) = 0 => c \notin SeqRange(addressed))

\* A connection has just asked for notifications while every slot held
\* the handle of another, subscribed connection, and it has no slot.
C11_Witness ==
    /\ CccdWrite(last)
    /\ last.v % 2 = 1
    /\ last.size = 2
    /\ last.conn \in wantNotify
    /\ ~registered(Cur, last.conn)
    /\ \A i \in Slots : callbacks[i] \in wantNotify \ {last.conn}
    /\ Cardinality({callbacks[i] : i \in Slots}) = MAX_NR_HCI_CONNECTIONS

\* The output the policy instance gives at the tick that ends in the primed
\* state, from the instance's state before it and the tick's sensor view.
PolicyOutput ==
    IF last'.v = 1 THEN 1
    ELSE IF last_active_at # NO_TIME
              /\ now' - last_active_at < g_fan_policy.cooldown * FAN_POLICY_UPDATE_RATE_HZ
         THEN 1 ELSE 0

\* C12 as stated: fan_power_override(not-known) called while an override o
\* is set makes the override not-known, calls notify() once and leaves power
\* and the PWM level alone; the policy tick that follows sets power to the
\* policy output and calls notify() once.
C12_ReleaseThenOneSignal ==
    [][/\ (last'.op = "fan_power_override" /\ last'.v = NOT_KNOWN
             /\ g_fan_power_override # NOT_KNOWN)
          => (g_fan_power_override' = NOT_KNOWN /\ notifyCalls' = 1
              /\ UNCHANGED <<g_fan_power, pwm_level>>)
       /\ (last.op = "fan_power_override" /\ last.v = NOT_KNOWN /\ notifyCalls = 1
             /\ last'.op = "fan-policy")
          => (g_fan_power' = 200 * PolicyOutput /\ notifyCalls' = 1)]_vars

\* C12 amended: the release makes the override not-known, calls notify()
\* once and leaves power and the PWM level alone; power then stays until
\* the next policy tick, which sets power and the PWM level to the policy
\* output (0 when the predicate is false and the cooldown has expired) and
\* calls notify() once if that output differs from the power left by the
\* override, and not at all if it equals it.
C12_OverrideRelease ==
    [][/\ (last'.op = "fan_power_override" /\ last'.v = NOT_KNOWN
             /\ g_fan_power_override # NOT_KNOWN)
          => (g_fan_power_override' = NOT_KNOWN /\ notifyCalls' = 1
              /\ UNCHANGED <<g_fan_power, pwm_level>>)
       /\ (g_fan_power_override = NOT_KNOWN /\ g_fan_power_override' = NOT_KNOWN
             /\ last'.op # "fan-policy")
          => UNCHANGED <<g_fan_power, pwm_level>>
       /\ (g_fan_power_override = NOT_KNOWN /\ last'.op = "fan-policy")
          => (/\ g_fan_power' = 200 * PolicyOutput
              /\ pwm_level' = (IF PolicyOutput = 1 THEN UINT16_MAX ELSE 0)
              /\ g_fan_power_override' = NOT_KNOWN
              /\ notifyCalls' = (IF g_fan_power = 200 * PolicyOutput THEN 0 ELSE 1))]_vars

\* A 50% override has just been released: the override is not-known, one
\* notify() call was made and power and the PWM level still are the
\* override's.
C12_Witness ==
    /\ last.op = "fan_power_override"
    /\ last.v = NOT_KNOWN
    /\ notifyCalls = 1
    /\ g_fan_power_override = NOT_KNOWN
    /\ g_fan_power = 100
    /\ pwm_level = pwm_duty(100)

\* C13: whenever a handler changed power or the override, and so called
\* notify(), every connection subscribed then, that stays subscribed and
\* connected, is eventually sent a Fan Aggregate notification, provided
\* the stack drains.
C13_EventuallyNotified ==
    \A c \in ConnHandles :
        (notifyCalls >= 1 /\ ~overfull /\ c \in wantNotify)
            ~> (c \notin wantNotify \/ (sent # << >> /\ sent[1].conn = c))

\* C14 as stated: after fan_power_set(d), fan_power() is d.value_or(0) and
\* the PWM level is 65535 times d.value_or(0) as a fraction of 100%,
\* rounded to the nearest integer.
C14_DutyRounded ==
    last.op = "fan_power_set"
        => (/\ fan_power(Cur) = value_or_0(last.v)
            /\ pwm_level = (2 * UINT16_MAX * value_or_0(last.v) + 200) \div 400)

\* C14 amended: after fan_power_set(d), fan_power() is d.value_or(0) and
\* the PWM level is 65535 times d.value_or(0) as a fraction of 100%,
\* truncated to an integer: 0 for 0% and not-known, 65535 for 100%.
C14_DutyTruncated ==
    last.op = "fan_power_set"
        => (/\ g_fan_power = last.v
            /\ fan_power(Cur) = value_or_0(last.v)
            /\ pwm_level \in 0 .. UINT16_MAX
            /\ 200 * pwm_level <= UINT16_MAX * value_or_0(last.v)
            /\ UINT16_MAX * value_or_0(last.v) < 200 * (pwm_level + 1)
            /\ (last.v \in {0, NOT_KNOWN} => pwm_level = 0)
            /\ (last.v = 200 => pwm_level = UINT16_MAX))

\* fan_power_set(50%) has run: 65535 / 2 is 32767.5 and the level is 32767.
C14_Witness ==
    /\ last.op = "fan_power_set"
    /\ last.v = 100
    /\ g_fan_power = 100
    /\ pwm_level = 32767

C16_ReadsDoubled ==
    (last.op = "attr_read" /\ last.h = "FAN_AGGREGATE_VALUE" /\ last.off = 0
        /\ last.size = 4 /\ g_fan_power_override = 100 /\ rps = 0)
        => readbuf = <<200, 200, 0, 0>>

\* C16 amended: from power 0, override not-known, tachometer 0 and nothing
\* pending, the write of the single byte 0x64 to Fan Power Override
\* succeeds, makes power and override 0x64 and leaves exactly one request
\* pending for every subscribed connection; a read of the Fan Aggregate
\* then returns the bytes 64 64 00 00, and so does the notification sent.
C16_SnapOn ==
    /\ [][(last'.op = "attr_write" /\ last'.h = "FAN_POWER_OVERRIDE_VALUE"
             /\ last'.off = 0 /\ last'.size = 1 /\ last'.v = 100
             /\ g_fan_power = 0 /\ g_fan_power_override = NOT_KNOWN /\ rps = 0
             /\ ~overfull /\ \A c \in ConnHandles : notification_requests[c] = << >>)
           => (/\ last'.res = ATT_OK
               /\ g_fan_power' = 100 /\ g_fan_power_override' = 100
               /\ \A c \in wantNotify : Len(notification_requests'[c]) = 1
               /\ \A c \in ConnHandles \ wantNotify : notification_requests'[c] = << >>)]_vars
    /\ [](/\ (last.op = "attr_read" /\ last.h = "FAN_AGGREGATE_VALUE" /\ last.off = 0
                /\ last.size = 4 /\ g_fan_power_override = 100 /\ rps = 0)
             => (last.res = 4 /\ readbuf = <<100, 100, 0, 0>>)
          /\ (sent # << >> /\ g_fan_power_override = 100 /\ rps = 0)
             => sent[1].payload = <<100, 100, 0>>)

\* Two subscribed connections; one has been sent its notification after
\* the write of 0x64, the other's single request is still pending.
C16_Witness ==
    /\ g_fan_power_override = 100
    /\ g_fan_power = 100
    /\ wantNotify = {1, 2}
    /\ sent # << >>
    /\ sent[1] = [conn |-> 1, payload |-> <<100, 100, 0>>]
    /\ notification_requests[1] = << >>
    /\ Len(notification_requests[2]) = 1

\* The cooldown of the configured policy, in policy periods.
CooldownPeriods == g_fan_policy.cooldown * FAN_POLICY_UPDATE_RATE_HZ

\* C17: with the override not-known, a policy tick at which the predicate
\* holds makes power 100% and is remembered as the last activation; a
\* tick at which it does not hold ends with power at 100% while less than
\* the cooldown has passed since the last activation, and with power 0
\* once the cooldown has passed.
C17_Cooldown ==
    [][(last'.op = "fan-policy" /\ g_fan_power_override = NOT_KNOWN)
        => (/\ last'.v = 1 => (g_fan_power' = 200 /\ last_active_at' = now')
            /\ (last'.v = 0 /\ last_active_at # NO_TIME
                  /\ now' - last_active_at < CooldownPeriods)
               => (g_fan_power' = 200 /\ last_active_at' = last_active_at)
            /\ (last'.v = 0 /\ last_active_at # NO_TIME
                  /\ now' - last_active_at >= CooldownPeriods)
               => g_fan_power' = 0)]_vars

\* The first tick at which the cooldown has passed since the last
\* activation has just switched the fan off.
C17_Witness ==
    /\ last.op = "fan-policy"
    /\ last.v = 0
    /\ g_fan_power_override = NOT_KNOWN
    /\ last_active_at # NO_TIME
    /\ now - last_active_at = CooldownPeriods
    /\ g_fan_power = 0
    /\ pwm_level = 0
    /\ notifyCalls = 1

\* The policy parameter a value handle addresses.
PolicyField(h) ==
    CASE h = "FAN_POLICY_COOLDOWN_VALUE" -> "cooldown"
      [] h = "FAN_POLICY_VOC_PASSIVE_MAX_VALUE" -> "voc_passive_max"
      [] h = "FAN_POLICY_VOC_IMPROVE_MIN_VALUE" -> "voc_improve_min"

\* C18: a write at offset 0 to a policy parameter or to the CCCD fails with
\* INVALID_ATTRIBUTE_VALUE_LENGTH and changes nothing if its length is not
\* 2; if its length is 2 it succeeds and changes only the addressed
\* parameter, or only the writer's own subscription: the CCCD value and
\* the pending requests of every other connection stay as they were.
C18_SizedWrites ==
    [][(last'.op = "attr_write" /\ last'.h \in SizedHandles /\ last'.off = 0)
        => IF last'.size # 2
           THEN last'.res = ATT_ERROR_INVALID_ATTRIBUTE_VALUE_LENGTH
                /\ UNCHANGED ProgramVars /\ UNCHANGED wantNotify
           ELSE /\ last'.res = ATT_OK
                /\ UNCHANGED fanVars
                /\ last'.h \in ValueHandles
                     => (/\ UNCHANGED tableVars
                         /\ g_fan_policy' =
                              [g_fan_policy EXCEPT ![PolicyField(last'.h)] = last'.v])
                /\ last'.h = "FAN_AGGREGATE_CLIENT_CONFIGURATION"
                     => (/\ UNCHANGED g_fan_policy
                         /\ \A c \in connected \ {last'.conn} :
                              /\ client_configuration([callbacks |-> callbacks'], c)
                                    = client_configuration(Cur, c)
                              /\ notification_requests'[c] = notification_requests[c])]_vars

\* C19: for every subscribed connection, if power or the override changed
\* since its latest subscription, then a request is pending for it or the
\* notification last sent to it carried the current power and override.
C19_Freshness ==
    ~overfull => \A c \in wantNotify : c \in stale => notification_requests[c] # << >>

\* C20: a policy tick taken while an override is set does not evaluate the
\* policy: the instance's last activation stays what it was, whatever the
\* sensors show; so the first tick after the release measures the cooldown
\* from the last activation seen before the override, and a predicate
\* that held only under the override does not keep the fan on.
C20_OverrideSkipsPolicy ==
    [][/\ (last'.op = "fan-policy" /\ g_fan_power_override # NOT_KNOWN)
          => last_active_at' = last_active_at
       /\ last'.op # "fan-policy" => last_active_at' = last_active_at
       /\ (last'.op = "fan-policy" /\ g_fan_power_override = NOT_KNOWN /\ last'.v = 0)
          => g_fan_power' = (IF last_active_at # NO_TIME
                                  /\ now' - last_active_at < CooldownPeriods
                             THEN 200 ELSE 0)]_vars

\* The predicate held at a tick taken under a 50% override, and the policy
\* instance still has seen no activation.
C20_Witness ==
    /\ last.op = "fan-policy"
    /\ last.v = 1
    /\ g_fan_power_override = 100
    /\ g_fan_power = 100
    /\ last_active_at = NO_TIME
    /\ now >= 1

=============================================================================
